---- MODULE Spec2Model ----
(***************************************************************************)
(* Verification model of the WebGL layer of playfight-2k26.                *)
(*                                                                         *)
(*   SpecTransition : TransitionController (canvas/TransitionController.js)*)
(*                    driven by prepare / target-ready events, cancel()    *)
(*                    and the gsap ticker.                                 *)
(*   SpecCache      : TextureCache (canvas/utils/TextureCache.js) driven   *)
(*                    by load(), clear() and loader callbacks.             *)
(*   SpecTime       : Time (canvas/utils/Time.js) driven by animation      *)
(*                    frames, play, pause and stop.  Milliseconds.         *)
(*   SpecCanvas     : Canvas.onChange (canvas/index.js) with the pages it  *)
(*                    manages: Page (canvas/Page.js) and Home              *)
(*                    (canvas/Home/index.js), page loads and timers.       *)
(*   SpecEmitter    : Emitter (utils/Emitter.js) driven by on, once, off,  *)
(*                    emit and clear, called from outside or by the        *)
(*                    handler that is running.                             *)
(*   SpecNavigation : TransitionManager (transitions/index.js) with the    *)
(*                    default GlobalTransition: Taxi navigations, their    *)
(*                    enter animation and safety timer, and the canvas     *)
(*                    page swap of each.                                   *)
(*   SpecPlane      : the quads of a HomeView (DOMPlane): layout, hover    *)
(*                    and pointer events, per-frame update, and the target *)
(*                    geometry of TransitionController.animateToDOM.       *)
(*                                                                         *)
(* Time is counted in tenths of a second (gsap positions 1.3, 1.5, 2.0     *)
(* become 13, 15, 20).  Opacity is counted in thousandths.                 *)
(***************************************************************************)
EXTENDS Integers, Sequences, FiniteSets, TLC

\* ------------------------------------------------------------------ bounds
NumQuads == 2
MaxSessions == 2
MaxDelta == 2
NumUrls == 2
MaxFetches == 3
MaxCalls == 3
MaxListeners == 3
MaxEmits == 2
MaxOnce == 1
MaxOffs == 1
MaxFrames == 4
MaxChanges == 4
MaxNavigations == 2
NumPlanes == 2
MaxUpdates == 2
MaxImages == 3

\* ------------------------------------------------------- program constants
ResetDuration == 5
HandoffAt == 13
FadeStart == 15
FadeDuration == 5
MoveDuration == 15
OpacityOne == 1000
DeltaCap == 60

Quads == 1..NumQuads
Urls == 1..NumUrls
\* A falsy src (the empty string).
NoSource == 0
MeshIds == 1..MaxSessions
EventNames == {"e", "f"}
Handlers == {"A", "B"}
Namespaces == {"x", "y"}
\* Milliseconds between two frames: a steady 60 Hz frame, gaps around the
\* cap, and a long gap (a tab that was in the background).
Gaps == {16, DeltaCap - 1, DeltaCap, DeltaCap + 1, 100}
\* What a tick listener calls on the clock while it runs.
ListenerCalls == {"none", "pause", "stop"}
\* The registry given to Canvas: key -> page class.  "home" is the Home
\* class, "page" a page that keeps the behaviour of the Page base class.
Registry == [home |-> "Home", page |-> "Page"]
PageNames == DOMAIN Registry
\* The identities onChange is called with: the registered ones, a falsy one
\* (null) and one that is not a key of the registry.
Identities == PageNames \cup {"", "unregistered"}
\* What the Page constructor sets, with the counters of the instance's events
\* and, in disposals, the destroy() calls made on the view it made last (each
\* disposes the geometry and the material of every quad of the view).
NewPage == [exists |-> TRUE, created |-> FALSE, visible |-> FALSE,
            isActive |-> FALSE, isTransitioning |-> FALSE, view |-> FALSE,
            timers |-> 0, createdEntered |-> 0, createEvents |-> 0,
            enterEvents |-> 0, leaveEvents |-> 0, disposals |-> 0]
\* A key of Canvas.pages that is not set.
NoPage == [NewPage EXCEPT !.exists = FALSE]
\* this.fromElement before the first onLeave: undefined.
NoElement == -1
\* A function value: a handler, or the k-th wrapper closure made by once().
Fn(callback, wrapper) == [callback |-> callback, wrapper |-> wrapper]
\* null or undefined passed as callback.
NoFn == Fn("", 0)
\* null or undefined passed as namespace.
NoNamespace == ""
\* The last call was not off(event, null, namespace).
NoOff == [event |-> "", ns |-> "", removed |-> 0]

VARIABLES
    transitionMesh,         \* this.transitionMesh: 0 (null) or a clone id
    timeline,               \* this.timeline: 0 (null) or a timeline id
    activePageTransition,   \* this.activePageTransition (status "null" = null)
    scene,                  \* clones that are children of canvas.scene
    clone,                  \* fields of the clone this.transitionMesh refers to
    disposed,               \* clones whose material was disposed
    sourceVisible,          \* sourcePlane.visible, per source quad
    sourceGeometryDisposed, \* dispose() was called on the quad's own geometry
    timelines,              \* running gsap timelines: id -> fields
    killed,                 \* timelines on which kill() was called
    finished,               \* timelines that ran to their end
    emitLog,                \* events emitted on the global emitter
    nextMesh,               \* number of clones created so far
    lastCall,               \* the handler that ran last, with its input
    cache,                  \* TextureCache.cache: url -> texture (0: absent)
    pending,                \* TextureCache.pending: url -> promise (0: absent)
    promises,               \* promises made by load(), each with its fetch
    calls,                  \* what each load() call returned to its caller
    texturesDisposed,       \* textures on which dispose() was called
    events,                 \* Emitter._events: event -> list of {fn, ns}
    stack,                  \* emit() calls in progress, innermost last
    wrappers,               \* closures made by once(): namespace, times invoked
    lastOp,                 \* the last off(event, null, namespace) call
    made,                   \* calls made so far: on/once, off/clear, emit
    current,                \* Time.current: time of the last tick(), in ms
    now,                    \* performance.now() at the latest frame callback
    elapsed,                \* Time.elapsed
    delta,                  \* Time.delta
    playing,                \* Time.playing
    ticker,                 \* Time.ticker: the last requestAnimationFrame handle
    scheduled,              \* frame callbacks requested and not yet run or cancelled
    frames,                 \* tick() runs so far, the constructor's not counted
    ticks,                  \* emit('tick') calls so far
    heard,                  \* the gap and the delta of the last emit('tick')
    cappedSum,              \* sum of min(gap, 60) over the frames run while playing
    stopped,                \* stop() has returned
    pages,                  \* Canvas.pages: the page instance of each registry key
    currentPage,            \* Canvas.currentPage: "null" or a registry key
    awaiting,               \* onChange calls suspended at `await next.load()`
    changes,                \* onChange calls made so far
    lastChange,             \* the identity given to the onChange call just made
    canvas,                 \* the Canvas object: "none" before `new Canvas`,
                            \* "ready", "bare" (no .canvas container found),
                            \* or "destroyed" once destroy() has been called
    errors,                 \* exceptions thrown and promises rejected so far
    requested,              \* the identity given to the most recent onChange
                            \* call, "none" before the first
    reentered,              \* the page whose identity the last onChange call
                            \* was given while it was the current page, or ""
    navs,                   \* the navigations Taxi has run, oldest first
    roots,                  \* the page roots in document.body: 0 is the first
                            \* page's, k the destination of navigation k
    fromElement,            \* this.fromElement of the route's transition
    planes,                 \* DOMPlane.imagePlanes of one HomeView
    updates,                \* HomeView.update calls so far
    viewDelta,              \* the delta given to the last HomeView.update
    target,                 \* what animateToDOM computed for its last rect
    viewState,              \* a HomeView: "none", "live" or "destroyed"
    template,               \* the src of each [data-gl="img"] of its template
    viewLoads,              \* per src: the TextureCache.load the view awaits
    loaded,                 \* the `loaded` counter of loadImages
    textures,               \* the srcs in HomeView.textures
    imagePlanes,            \* indices of the images with a quad in imagePlanes
    imgHidden,              \* indices of the images with style.opacity '0'
    viewDisposed,           \* quads whose geometry and material were disposed
    preloader,              \* the Preloader of the App and where start() is
    managers                \* TransitionManager instances constructed

\* Everything but the record of the last call.
tcState == <<transitionMesh, timeline, activePageTransition, scene, clone,
             disposed, sourceVisible, sourceGeometryDisposed, timelines,
             killed, finished, emitLog, nextMesh>>

tcVars == <<tcState, lastCall>>

cacheVars == <<cache, pending, promises, calls, texturesDisposed>>

emitterVars == <<events, stack, wrappers, lastOp, made>>

timeVars == <<current, now, elapsed, delta, playing, ticker, scheduled, frames,
              ticks, heard, cappedSum, stopped>>

canvasVars == <<pages, currentPage, awaiting, changes, lastChange, canvas,
               errors, reentered, requested>>

navVars == <<navs, roots, fromElement>>

planeVars == <<planes, updates, viewDelta, target>>

viewVars == <<viewState, template, viewLoads, loaded, textures, imagePlanes,
             imgHidden, viewDisposed>>

bootVars == <<preloader, managers>>

vars == <<tcVars, cacheVars, emitterVars, timeVars, canvasVars, navVars,
          planeVars, viewVars, bootVars>>

\* What the steps of one object leave alone: the other objects.
notTransition == <<cacheVars, emitterVars, timeVars, canvasVars, navVars,
                   planeVars, viewVars, bootVars>>
notCache == <<tcVars, emitterVars, timeVars, canvasVars, navVars, planeVars,
              viewVars, bootVars>>
notEmitter == <<tcVars, cacheVars, timeVars, canvasVars, navVars, planeVars,
                viewVars, bootVars>>
notTime == <<tcVars, cacheVars, emitterVars, canvasVars, navVars, planeVars,
             viewVars, bootVars>>
notCanvas == <<tcVars, cacheVars, emitterVars, timeVars, navVars, planeVars,
               viewVars, bootVars>>
\* A navigation acts on the canvas as well.
notNavigation == <<tcVars, cacheVars, emitterVars, timeVars, planeVars,
                   viewVars, bootVars>>
notPlane == <<tcVars, cacheVars, emitterVars, timeVars, canvasVars, navVars,
              viewVars, bootVars>>
notView == <<tcVars, cacheVars, emitterVars, timeVars, canvasVars, navVars,
             planeVars, bootVars>>
notBoot == <<tcVars, cacheVars, emitterVars, timeVars, canvasVars, navVars,
             planeVars, viewVars>>

\* ------------------------------------------------------------ small helpers
Min(a, b) == IF a < b THEN a ELSE b

NullSession == [status |-> "null", mesh |-> 0, sourcePlane |-> 0]
NullClone == [geometry |-> "none", opacity |-> 0, source |-> 0]

\* The reset timeline and the animate timeline of clone m.
ResetTl(m) == 2 * m - 1
AnimateTl(m) == 2 * m
TlKind(id) == IF id % 2 = 1 THEN "reset" ELSE "animate"

\* gsap power2.inOut over the 0.5 s fade, sampled each tenth of a second:
\* p < 0.5 ? 4p^3 : 1 - 4(1-p)^3, with p = q / FadeDuration, in thousandths.
EasePower2InOut(q) ==
    IF 2 * q < FadeDuration
    THEN (4 * OpacityOne * q * q * q)
            \div (FadeDuration * FadeDuration * FadeDuration)
    ELSE OpacityOne -
         (4 * OpacityOne * (FadeDuration - q) * (FadeDuration - q)
            * (FadeDuration - q))
            \div (FadeDuration * FadeDuration * FadeDuration)

AnimateDuration == FadeStart + FadeDuration

\* The controller and the objects it touches, as one value, so that the
\* methods compose the way the calls do.
State ==
    [transitionMesh |-> transitionMesh, timeline |-> timeline,
     activePageTransition |-> activePageTransition, scene |-> scene,
     clone |-> clone, disposed |-> disposed, sourceVisible |-> sourceVisible,
     sourceGeometryDisposed |-> sourceGeometryDisposed,
     timelines |-> timelines, killed |-> killed, finished |-> finished,
     emitLog |-> emitLog, nextMesh |-> nextMesh]

Becomes(s) ==
    /\ transitionMesh' = s.transitionMesh
    /\ timeline' = s.timeline
    /\ activePageTransition' = s.activePageTransition
    /\ scene' = s.scene
    /\ clone' = s.clone
    /\ disposed' = s.disposed
    /\ sourceVisible' = s.sourceVisible
    /\ sourceGeometryDisposed' = s.sourceGeometryDisposed
    /\ timelines' = s.timelines
    /\ killed' = s.killed
    /\ finished' = s.finished
    /\ emitLog' = s.emitLog
    /\ nextMesh' = s.nextMesh

\* geometry.dispose() on the clone's current geometry: the geometry is the
\* source quad's own until the size tween has replaced it.
DisposeGeometry(s) ==
    IF s.clone.geometry = "source"
    THEN [s EXCEPT !.sourceGeometryDisposed[s.clone.source] = TRUE]
    ELSE s

\* timeline.kill(): the timeline stops rendering and its callbacks never fire.
Kill(s, id) ==
    [s EXCEPT !.killed = @ \cup {id},
              !.timelines = [t \in DOMAIN @ \ {id} |-> @[t]]]

\* -------------------------------------------------- TransitionController
hasActiveTransition(s) == s.activePageTransition.status # "null"

\* Mutant: cleanup that forgets to show the source quad again.
cleanup_NoRestore(s) ==
    LET s1 == IF s.transitionMesh # 0
              THEN [DisposeGeometry(s) EXCEPT
                        !.scene = @ \ {s.transitionMesh},
                        !.disposed = @ \cup {s.transitionMesh},
                        !.clone = NullClone,
                        !.transitionMesh = 0]
              ELSE s
    IN  IF s1.timeline # 0
        THEN [Kill(s1, s1.timeline) EXCEPT !.timeline = 0]
        ELSE s1

cleanup(s) ==
    LET s1 == IF s.transitionMesh # 0
              THEN [DisposeGeometry(s) EXCEPT
                        !.scene = @ \ {s.transitionMesh},
                        !.disposed = @ \cup {s.transitionMesh},
                        !.clone = NullClone,
                        !.transitionMesh = 0]
              ELSE s
        s2 == IF /\ s1.activePageTransition.status # "null"
                 /\ s1.activePageTransition.sourcePlane # 0
              THEN [s1 EXCEPT
                        !.sourceVisible[s1.activePageTransition.sourcePlane]
                            = TRUE]
              ELSE s1
    IN  IF s2.timeline # 0
        THEN [Kill(s2, s2.timeline) EXCEPT !.timeline = 0]
        ELSE s2

\* Mutant: the session record is dropped without cleanup.
cancelPageTransition_SessionOnly(s) ==
    [s EXCEPT !.activePageTransition = NullSession]

cancelPageTransition(s) ==
    IF s.activePageTransition.status # "null"
    THEN [cleanup(s) EXCEPT !.activePageTransition = NullSession]
    ELSE s

cancel(s) == cleanup(s)

\* Mutant: the end of the reset timeline closes the session.
startTransition_Timeout(s, sourcePlane) ==
    LET m == s.nextMesh + 1
    IN  [s EXCEPT
            !.nextMesh = m,
            !.transitionMesh = m,
            !.clone = [geometry |-> "source", opacity |-> OpacityOne,
                       source |-> sourcePlane],
            !.scene = @ \cup {m},
            !.sourceVisible[sourcePlane] = FALSE,
            !.activePageTransition =
                [status |-> "waiting-for-target", mesh |-> m,
                 sourcePlane |-> sourcePlane],
            !.timeline = ResetTl(m),
            !.timelines = [t \in DOMAIN @ \cup {ResetTl(m)} |->
                             IF t = ResetTl(m)
                             THEN [time |-> 0, onComplete |-> "handler"]
                             ELSE @[t]]]

startTransition(s, sourcePlane) ==
    LET m == s.nextMesh + 1
    IN  [s EXCEPT
            !.nextMesh = m,
            !.transitionMesh = m,
            !.clone = [geometry |-> "source", opacity |-> OpacityOne,
                       source |-> sourcePlane],
            !.scene = @ \cup {m},
            !.sourceVisible[sourcePlane] = FALSE,
            !.activePageTransition =
                [status |-> "waiting-for-target", mesh |-> m,
                 sourcePlane |-> sourcePlane],
            !.timeline = ResetTl(m),
            !.timelines = [t \in DOMAIN @ \cup {ResetTl(m)} |->
                             IF t = ResetTl(m)
                             THEN [time |-> 0, onComplete |-> "none"]
                             ELSE @[t]]]

\* Mutant: a new transition is started without cancelling the open one.
handleTransitionPrepare_NoCancel(s, narrow, mesh) ==
    IF narrow THEN s
    ELSE IF mesh = 0 THEN s
    ELSE startTransition(s, mesh)

\* Mutant: the narrow-viewport check is missing.
handleTransitionPrepare_NoMobileCheck(s, narrow, mesh) ==
    IF mesh = 0 THEN s
    ELSE startTransition(
            IF s.activePageTransition.status # "null"
            THEN cancelPageTransition(s) ELSE s,
            mesh)

\* data.mesh is a source quad, or 0 when the payload carries no mesh.
handleTransitionPrepare(s, narrow, mesh) ==
    IF narrow THEN s
    ELSE IF mesh = 0 THEN s
    ELSE startTransition(
            IF s.activePageTransition.status # "null"
            THEN cancelPageTransition(s) ELSE s,
            mesh)

animateToDOM(s, targetRect) ==
    IF s.transitionMesh = 0 \/ ~targetRect THEN s
    ELSE LET id == AnimateTl(s.transitionMesh)
         IN  [s EXCEPT
                !.timeline = id,
                !.timelines = [t \in DOMAIN @ \cup {id} |->
                                 IF t = id
                                 THEN [time |-> 0, onComplete |-> "cleanup"]
                                 ELSE @[t]]]

\* timeline.eventCallback('onComplete', ...) replaces the callback of
\* whatever timeline this.timeline refers to; a timeline that has already
\* finished or was killed never calls it.
SetOnComplete(s) ==
    IF s.timeline # 0 /\ s.timeline \in DOMAIN s.timelines
    THEN [s EXCEPT !.timelines[s.timeline].onComplete = "handler"]
    ELSE s

\* Mutant: the status of the open session is not checked.
handleTargetReady_NoStatusCheck(s, rect) ==
    IF s.activePageTransition.status = "null" THEN s
    ELSE SetOnComplete(
            animateToDOM(
                [s EXCEPT !.activePageTransition.status = "animating"],
                rect))

handleTargetReady(s, rect) ==
    IF s.activePageTransition.status = "null" THEN s
    ELSE IF s.activePageTransition.status # "waiting-for-target" THEN s
    ELSE SetOnComplete(
            animateToDOM(
                [s EXCEPT !.activePageTransition.status = "animating"],
                rect))

\* Mutant: the completion callback cleans up but keeps the session record.
OnCompleteHandler_CleanupOnly(s) == cleanup(s)

\* The onComplete callback installed by handleTargetReady.
OnCompleteHandler(s) ==
    LET s1 == IF s.activePageTransition.status # "null"
              THEN [s EXCEPT !.activePageTransition.status = "complete"]
              ELSE s
    IN  [cleanup(s1) EXCEPT !.activePageTransition = NullSession]

RunOnComplete(s, cb) ==
    CASE cb = "handler" -> OnCompleteHandler(s)
      [] cb = "cleanup" -> cleanup(s)
      [] OTHER -> s

\* ------------------------------------------------------------ gsap ticker
\* onUpdate of the size tween: a new PlaneGeometry replaces the old one,
\* which is disposed.
SizeOnUpdate(s) ==
    [DisposeGeometry(s) EXCEPT !.clone.geometry = "own"]

EmitHandoff(s) ==
    [s EXCEPT !.emitLog = Append(@,
        [event |-> "webgl:transition:handoff",
         mesh |-> s.transitionMesh,
         inScene |-> s.transitionMesh \in s.scene,
         opacity |-> s.clone.opacity])]

Finish(s, id) ==
    [s EXCEPT !.finished = @ \cup {id},
              !.timelines = [t \in DOMAIN @ \ {id} |-> @[t]]]

\* Mutant: the handoff call sits at the end of the timeline, after the fade
\* and after onComplete.
RenderAnimate_LateCall(s, id, d) ==
    LET t0 == s.timelines[id].time
        t1 == Min(t0 + d, AnimateDuration)
        cb == s.timelines[id].onComplete
        s1 == IF t0 < MoveDuration THEN SizeOnUpdate(s) ELSE s
        s3 == IF t1 > FadeStart
              THEN [s1 EXCEPT !.clone.opacity =
                        OpacityOne - EasePower2InOut(t1 - FadeStart)]
              ELSE s1
    IN  IF t1 >= AnimateDuration
        THEN EmitHandoff(RunOnComplete(Finish(s3, id), cb))
        ELSE [s3 EXCEPT !.timelines[id].time = t1]

\* One render of the animate timeline, its children in start order: the
\* position and size tweens (0 .. 1.5 s), the handoff call (1.3 s), the
\* opacity fade (1.5 .. 2.0 s), then onComplete.
RenderAnimate(s, id, d) ==
    LET t0 == s.timelines[id].time
        t1 == Min(t0 + d, AnimateDuration)
        cb == s.timelines[id].onComplete
        s1 == IF t0 < MoveDuration THEN SizeOnUpdate(s) ELSE s
        s2 == IF t0 < HandoffAt /\ t1 >= HandoffAt THEN EmitHandoff(s1) ELSE s1
        s3 == IF t1 > FadeStart
              THEN [s2 EXCEPT !.clone.opacity =
                        OpacityOne - EasePower2InOut(t1 - FadeStart)]
              ELSE s2
    IN  IF t1 >= AnimateDuration
        THEN RunOnComplete(Finish(s3, id), cb)
        ELSE [s3 EXCEPT !.timelines[id].time = t1]

\* One render of the reset timeline started by startTransition.
RenderReset(s, id, d) ==
    LET t1 == Min(s.timelines[id].time + d, ResetDuration)
        cb == s.timelines[id].onComplete
    IN  IF t1 >= ResetDuration
        THEN RunOnComplete(Finish(s, id), cb)
        ELSE [s EXCEPT !.timelines[id].time = t1]

RenderTimeline(s, id, d) ==
    IF id \notin DOMAIN s.timelines THEN s
    ELSE IF TlKind(id) = "reset" THEN RenderReset(s, id, d)
    ELSE RenderAnimate(s, id, d)

\* The ticker renders every running timeline, oldest first.
RECURSIVE RenderFrom(_, _, _)
RenderFrom(s, id, d) ==
    IF id > AnimateTl(MaxSessions) THEN s
    ELSE RenderFrom(RenderTimeline(s, id, d), id + 1, d)

gsapTick(s, d) == RenderFrom(s, 1, d)

\* Frame gaps: up to MaxDelta tenths, or one long frame that spans the whole
\* animation (lag smoothing is switched off).
Deltas == (1..MaxDelta) \cup {AnimateDuration}

\* ----------------------------------------------------------------- actions
Called(op, arg) ==
    lastCall' = [op |-> op, arg |-> arg, seq |-> 1 - lastCall.seq]

\* ---------------------------------------------------------------- DOMPlane
\* Pixels are integers.  A world x, a world width and the x of a velocity
\* are kept multiplied by 2 * Screen.width, a world y and a height by
\* 2 * Screen.height, which makes every conversion below exact.  uOffset
\* is kept in tenths of that unit, uMouseVelocity as the numerator of the
\* division by the viewport size, and uTime in thousandths of a second.
Screen == [width |-> 8, height |-> 6]
Viewport == [width |-> 4, height |-> 3]

Planes == 1..NumPlanes

\* Bounding rects an image element can have; the last one is of an element
\* that is not laid out.
Rects == {[left |-> 0, top |-> 0, width |-> 4, height |-> 2],
          [left |-> 2, top |-> 3, width |-> 4, height |-> 2],
          [left |-> 2, top |-> 3, width |-> 0, height |-> 0]}
InitialRect == [left |-> 0, top |-> 0, width |-> 4, height |-> 2]

\* clientX, clientY of the mousemove events.
Pointers == {[x |-> 1, y |-> 1], [x |-> 6, y |-> 4]}

\* The deltas the clock hands to update, in ms.
FrameDeltas == {16, DeltaCap}

Zero == [x |-> 0, y |-> 0]
\* userData.worldPos: null until a hovered update sets it.
NoWorldPos == [set |-> FALSE, x |-> 0, y |-> 0]
NoTarget == [set |-> FALSE]

\* const ease = 0.09, in hundredths.
EaseHundredths == 9
\* velocity * 0.2 and velocity * 0.3, in tenths.
OffsetTenthsX == 2
OffsetTenthsY == 3

\* DOMPlane.createPlane: the geometry, the uniforms and userData of a quad
\* made for an element whose bounding rect is `bounds`.
createPlane(bounds) ==
    [rect |-> bounds,
     width |-> 2 * bounds.width * Viewport.width,
     height |-> 2 * bounds.height * Viewport.height,
     position |-> Zero,
     worldPos |-> NoWorldPos,
     isHovered |-> FALSE,
     targetWorldPos |-> Zero,
     uOffset |-> Zero,
     uMouseVelocity |-> Zero,
     uTime |-> 0]

\* ((left + width / 2) / screen.width) * viewport.width - viewport.width / 2
updateX(left, width) ==
    (2 * left + width) * Viewport.width - Viewport.width * Screen.width

\* viewport.height / 2 - ((top + height / 2) / screen.height) * viewport.height
updateY(top, height) ==
    Viewport.height * Screen.height - (2 * top + height) * Viewport.height

\* DOMPlane.updatePlanePosition
updatePlanePosition(plane) ==
    IF plane.worldPos.set THEN plane
    ELSE IF plane.rect.width = 0 \/ plane.rect.height = 0 THEN plane
    ELSE [plane EXCEPT !.position =
             [x |-> updateX(plane.rect.left, plane.rect.width),
              y |-> updateY(plane.rect.top, plane.rect.height)]]

\* current += (target - current) * ease, rounded down.
Ease(c, t) == c + ((t - c) * EaseHundredths) \div 100

\* The branch of updateHoveredPlanes for a hovered quad.
hovered(plane) ==
    LET c == IF plane.worldPos.set THEN plane.worldPos ELSE plane.position
        t == plane.targetWorldPos
        x == Ease(c.x, t.x)
        y == Ease(c.y, t.y)
    IN  [plane EXCEPT
            !.worldPos = [set |-> TRUE, x |-> x, y |-> y],
            !.position = [x |-> x, y |-> y],
            !.uOffset = [x |-> (t.x - x) * OffsetTenthsX,
                         y |-> (t.y - y) * OffsetTenthsY],
            !.uMouseVelocity = [x |-> t.x - x, y |-> t.y - y]]

\* Mutant: a quad that is not hovered keeps its uniforms.
notHovered_Keep(plane) == plane

\* The branch of updateHoveredPlanes for a quad that is not hovered.
notHovered(plane) ==
    [plane EXCEPT !.uOffset = Zero, !.uMouseVelocity = Zero]

\* DOMPlane.updateHoveredPlanes(delta), for one quad.
updateHoveredPlanes(plane, d) ==
    LET p == [plane EXCEPT !.uTime = @ + d]
    IN  IF p.isHovered THEN hovered(p) ELSE notHovered(p)

\* animateToDOM: the position and the size the clone is animated to, from
\* targetRect, viewport and screen.
targetWidth(r) == 2 * r.width * Viewport.width
targetHeight(r) == 2 * r.height * Viewport.height
\* Mutant: the target is the left edge of the rect, not its centre.
targetX_Edge(r) ==
    2 * r.left * Viewport.width - Viewport.width * Screen.width
targetX(r) ==
    (2 * r.left + r.width) * Viewport.width - Viewport.width * Screen.width
targetY(r) ==
    Viewport.height * Screen.height - (2 * r.top + r.height) * Viewport.height

\* ------------------------------------------------- HomeView texture loading
\* The templates a view is built on: up to MaxImages [data-gl="img"]
\* elements, each with its src or with none.
Templates ==
    UNION {[1..n -> Urls \cup {NoSource}] : n \in 0..MaxImages}

\* uniqueSrcs of loadImages: the truthy srcs of the images.
uniqueSrcs(t) == {t[i] : i \in 1..Len(t)} \ {NoSource}

\* Before new App().
NoPreloader ==
    [phase |-> "none", wrapper |-> FALSE, assets |-> <<>>,
     appStarted |-> FALSE, readyFired |-> FALSE, hidden |-> FALSE,
     attempts |-> 0]


\* The state after construction of the controller, the cache, the emitter,
\* the clock (whose constructor has run tick() once, at time 0), before
\* `new Canvas` has run, and of a HomeView whose createPlanes has run.
Init ==
    /\ transitionMesh = 0
    /\ timeline = 0
    /\ activePageTransition = NullSession
    /\ scene = {}
    /\ clone = NullClone
    /\ disposed = {}
    /\ sourceVisible = [q \in Quads |-> TRUE]
    /\ sourceGeometryDisposed = [q \in Quads |-> FALSE]
    /\ timelines = [t \in {} |-> 0]
    /\ killed = {}
    /\ finished = {}
    /\ emitLog = <<>>
    /\ nextMesh = 0
    /\ lastCall = [op |-> "init", arg |-> 0, seq |-> 0]
    /\ cache = [u \in Urls |-> 0]
    /\ pending = [u \in Urls |-> 0]
    /\ promises = <<>>
    /\ calls = <<>>
    /\ texturesDisposed = {}
    /\ events = [e \in EventNames |-> <<>>]
    /\ stack = <<>>
    /\ wrappers = <<>>
    /\ lastOp = NoOff
    /\ made = [listeners |-> 0, offs |-> 0, emits |-> 0]
    /\ current = 0
    /\ now = 0
    /\ elapsed = 0
    /\ delta = 0
    /\ playing = TRUE
    /\ ticker = 1
    /\ scheduled = {1}
    /\ frames = 0
    /\ ticks = 1
    /\ heard = [gap |-> 0, delta |-> 0]
    /\ cappedSum = 0
    /\ stopped = FALSE
    /\ pages = [n \in PageNames |-> NoPage]
    /\ currentPage = "null"
    /\ awaiting = <<>>
    /\ changes = 0
    /\ lastChange = "none"
    /\ canvas = "none"
    /\ errors = {}
    /\ reentered = ""
    /\ requested = "none"
    /\ navs = <<>>
    /\ roots = {0}
    /\ fromElement = NoElement
    /\ planes = [i \in Planes |->
                    updatePlanePosition(createPlane(InitialRect))]
    /\ updates = 0
    /\ viewDelta = 0
    /\ target = NoTarget
    /\ viewState = "none"
    /\ template = <<>>
    /\ viewLoads = [s \in Urls |-> "idle"]
    /\ loaded = 0
    /\ textures = {}
    /\ imagePlanes = {}
    /\ imgHidden = {}
    /\ viewDisposed = {}
    /\ preloader = NoPreloader
    /\ managers = 0

\* emitter.emit('webgl:transition:prepare', data)
Prepare ==
    \E narrow \in BOOLEAN, mesh \in Quads \cup {0} :
        /\ (~narrow /\ mesh # 0) => nextMesh < MaxSessions
        /\ Becomes(handleTransitionPrepare(State, narrow, mesh))
        /\ Called("prepare", IF narrow THEN -1 ELSE mesh)
        /\ UNCHANGED notTransition

\* emitter.emit('webgl:transition:target-ready', data)
TargetReady ==
    \E rect \in BOOLEAN :
        /\ Becomes(handleTargetReady(State, rect))
        /\ Called("target-ready", IF rect THEN 1 ELSE 0)
        /\ UNCHANGED notTransition

Cancel ==
    /\ Becomes(cancel(State))
    /\ Called("cancel", 0)
    /\ UNCHANGED notTransition

Tick ==
    \E d \in Deltas :
        /\ DOMAIN timelines # {}
        /\ Becomes(gsapTick(State, d))
        /\ Called("tick", 0)
        /\ UNCHANGED notTransition

NextTransition == Prepare \/ TargetReady \/ Cancel \/ Tick

\* ------------------------------------------------------------ TextureCache

\* What load() hands back: a promise of the pending map (promise # 0), or
\* a promise settled on the spot: Promise.resolve(texture) (value > 0) or
\* Promise.reject(new Error('No source provided')) (value = -1).  cleared
\* records that clear() ran after the call.
Returned(src, promise, value) ==
    calls' = Append(calls, [src |-> src, promise |-> promise,
                            value |-> value, cleared |-> FALSE])

load(src) ==
    /\ Len(calls) < MaxCalls
    /\ IF src = NoSource
       THEN /\ Returned(src, 0, -1)
            /\ UNCHANGED <<cache, pending, promises, texturesDisposed>>
       ELSE IF cache[src] # 0
       THEN /\ Returned(src, 0, cache[src])
            /\ UNCHANGED <<cache, pending, promises, texturesDisposed>>
       ELSE IF pending[src] # 0
       THEN /\ Returned(src, pending[src], 0)
            /\ UNCHANGED <<cache, pending, promises, texturesDisposed>>
       ELSE /\ Len(promises) < MaxFetches
            /\ promises' = Append(promises, [src |-> src, state |-> "pending"])
            /\ pending' = [pending EXCEPT ![src] = Len(promises) + 1]
            /\ Returned(src, Len(promises) + 1, 0)
            /\ UNCHANGED <<cache, texturesDisposed>>

\* The loader's onLoad callback of fetch p; its texture is a new object,
\* named p.
onLoad(p) ==
    /\ promises[p].state = "pending"
    /\ cache' = [cache EXCEPT ![promises[p].src] = p]
    /\ pending' = [pending EXCEPT ![promises[p].src] = 0]
    /\ promises' = [promises EXCEPT ![p].state = "fulfilled"]
    /\ UNCHANGED <<calls, texturesDisposed>>

\* Mutant: the failed fetch stays in the pending map.
onError_KeepsPending(p) ==
    /\ promises[p].state = "pending"
    /\ promises' = [promises EXCEPT ![p].state = "rejected"]
    /\ UNCHANGED <<cache, pending, calls, texturesDisposed>>

\* The loader's onError callback of fetch p.
onError(p) ==
    /\ promises[p].state = "pending"
    /\ pending' = [pending EXCEPT ![promises[p].src] = 0]
    /\ promises' = [promises EXCEPT ![p].state = "rejected"]
    /\ UNCHANGED <<cache, calls, texturesDisposed>>

clear ==
    /\ texturesDisposed' =
          texturesDisposed \cup {cache[u] : u \in {v \in Urls : cache[v] # 0}}
    /\ cache' = [u \in Urls |-> 0]
    /\ pending' = [u \in Urls |-> 0]
    /\ calls' = [i \in 1..Len(calls) |-> [calls[i] EXCEPT !.cleared = TRUE]]
    /\ UNCHANGED promises

get(src) == cache[src]
has(src) == cache[src] # 0

Load == \E src \in Urls \cup {NoSource} : load(src) /\ UNCHANGED notCache
FetchLoaded == \E p \in 1..Len(promises) : onLoad(p) /\ UNCHANGED notCache
FetchFailed == \E p \in 1..Len(promises) : onError(p) /\ UNCHANGED notCache
Clear == clear /\ UNCHANGED notCache

NextCache == Load \/ FetchLoaded \/ FetchFailed \/ Clear

\* ----------------------------------------------------------------- Emitter
\* An absent key of _events is the empty list: the code deletes a key whose
\* list became empty and creates a key only to push onto it.  The event
\* names drawn are truthy, so the `!event` early returns never apply.
on(ev, event, callback, namespace) ==
    IF callback = NoFn
    THEN ev
    ELSE [ev EXCEPT ![event] = Append(@, [fn |-> callback, ns |-> namespace])]

\* once() registers its k-th wrapper closure.
once(ev, event, callback, namespace, k) ==
    on(ev, event, Fn(callback, k), namespace)

\* Mutant: the namespace filter runs over every event.
off_EveryEvent(ev, event, callback, namespace) ==
    IF callback = NoFn /\ namespace # NoNamespace
    THEN [e \in EventNames |->
            SelectSeq(ev[e], LAMBDA entry : entry.ns # namespace)]
    ELSE IF callback # NoFn /\ ev[event] # <<>>
    THEN [ev EXCEPT ![event] =
            SelectSeq(@, LAMBDA entry : entry.fn # callback)]
    ELSE [ev EXCEPT ![event] = <<>>]

off(ev, event, callback, namespace) ==
    IF callback = NoFn /\ namespace # NoNamespace
    THEN [ev EXCEPT ![event] =
            SelectSeq(@, LAMBDA entry : entry.ns # namespace)]
    ELSE IF callback # NoFn /\ ev[event] # <<>>
    THEN [ev EXCEPT ![event] =
            SelectSeq(@, LAMBDA entry : entry.fn # callback)]
    ELSE [ev EXCEPT ![event] = <<>>]

\* Mutant: emit() walks the live list instead of its copy.
Entries_Live(frame, ev) == ev[frame.event]

\* The list an emit() in progress walks: its copy of the handler list.
Entries(frame, ev) == frame.entries

\* fn(data) is entered; a wrapper counts the call of its callback.
Invoked(fn, w) ==
    IF fn.wrapper # 0 THEN [w EXCEPT ![fn.wrapper].calls = @ + 1] ELSE w

\* The function an emit() in progress is running.
Running(frame) == frame.invoked[Len(frame.invoked)]

\* emit(event): the copy is taken and the first handler entered.
emit(event) ==
    IF events[event] = <<>>
    THEN UNCHANGED <<events, stack, wrappers>>
    ELSE LET frame == [event |-> event, entries |-> events[event],
                       pos |-> 1, invoked |-> <<>>]
             first == Entries(frame, events)[1].fn
         IN  /\ stack' = Append(stack, [frame EXCEPT !.invoked = <<first>>])
             /\ wrappers' = Invoked(first, wrappers)
             /\ UNCHANGED events

\* The running handler returns: a wrapper unregisters itself, then forEach
\* enters the next handler, or emit() returns to its caller.
return ==
    LET top == stack[Len(stack)]
        fn == Running(top)
        ev == IF fn.wrapper # 0
              THEN off(events, top.event, fn, wrappers[fn.wrapper].namespace)
              ELSE events
        list == Entries(top, ev)
    IN  /\ events' = ev
        /\ IF top.pos < Len(list)
           THEN LET next == list[top.pos + 1].fn
                IN  /\ stack' = [stack EXCEPT ![Len(stack)] =
                            [top EXCEPT !.pos = @ + 1,
                                        !.invoked = Append(@, next)]]
                    /\ wrappers' = Invoked(next, wrappers)
           ELSE /\ stack' = SubSeq(stack, 1, Len(stack) - 1)
                /\ UNCHANGED wrappers

\* Each call below comes from outside when no emit() is in progress, and
\* from the running handler otherwise.
On ==
    \E event \in EventNames, h \in Handlers \cup {""},
       namespace \in Namespaces \cup {NoNamespace} :
        /\ made.listeners < MaxListeners
        /\ events' = on(events, event, Fn(h, 0), namespace)
        /\ made' = [made EXCEPT !.listeners = @ + 1]
        /\ lastOp' = NoOff
        /\ UNCHANGED <<stack, wrappers>>
        /\ UNCHANGED notEmitter

Once ==
    \E event \in EventNames, h \in Handlers,
       namespace \in Namespaces \cup {NoNamespace} :
        /\ made.listeners < MaxListeners
        /\ Len(wrappers) < MaxOnce
        /\ made' = [made EXCEPT !.listeners = @ + 1]
        /\ events' = once(events, event, h, namespace, Len(wrappers) + 1)
        /\ wrappers' = Append(wrappers, [namespace |-> namespace, calls |-> 0])
        /\ lastOp' = NoOff
        /\ UNCHANGED stack
        /\ UNCHANGED notEmitter

Off ==
    \E event \in EventNames, h \in Handlers \cup {""},
       namespace \in Namespaces \cup {NoNamespace} :
        /\ made.offs < MaxOffs
        /\ events' = off(events, event, Fn(h, 0), namespace)
        /\ made' = [made EXCEPT !.offs = @ + 1]
        /\ lastOp' = IF h = "" /\ namespace # NoNamespace
                     THEN [event |-> event, ns |-> namespace,
                           removed |-> Len(events[event]) - Len(events'[event])]
                     ELSE NoOff
        /\ UNCHANGED <<stack, wrappers>>
        /\ UNCHANGED notEmitter

Emit ==
    \E event \in EventNames :
        /\ made.emits < MaxEmits
        /\ emit(event)
        /\ made' = [made EXCEPT !.emits = @ + 1]
        /\ lastOp' = NoOff
        /\ UNCHANGED notEmitter

Return ==
    /\ stack # <<>>
    /\ return
    /\ lastOp' = NoOff
    /\ UNCHANGED made
    /\ UNCHANGED notEmitter

EmitterClear ==
    /\ made.offs < MaxOffs
    /\ events' = [e \in EventNames |-> <<>>]
    /\ made' = [made EXCEPT !.offs = @ + 1]
    /\ lastOp' = NoOff
    /\ UNCHANGED <<stack, wrappers>>
    /\ UNCHANGED notEmitter

NextEmitter == On \/ Once \/ Off \/ Emit \/ Return \/ EmitterClear

\* -------------------------------------------------------------------- Time
\* Mutant: the delta is left as measured.
Cap_None(d) == d

\* if (this.delta > 60) this.delta = 60
Cap(d) == IF d > DeltaCap THEN DeltaCap ELSE d

play == playing' = TRUE

pause == playing' = FALSE

\* cancelAnimationFrame(this.ticker): a handle whose callback has run, or
\* is running, is no longer scheduled and cancelling it does nothing.
stop(pendingFrames) == pendingFrames \ {ticker}

\* Mutant: a paused tick() leaves this.current alone.
tick_Frozen(h, gap, call) ==
    /\ now' = now + gap
    /\ elapsed' = elapsed + (IF playing THEN now' - current ELSE 0)
    /\ cappedSum' = cappedSum + (IF playing THEN Min(gap, DeltaCap) ELSE 0)
    /\ current' = IF playing THEN now' ELSE current
    /\ delta' = Cap(now' - current)
    /\ frames' = frames + 1
    /\ IF playing
       THEN /\ ticks' = ticks + 1
            /\ heard' = [gap |-> gap, delta |-> delta']
            /\ playing' = (call # "pause")
            /\ stopped' = (stopped \/ call = "stop")
       ELSE UNCHANGED <<ticks, heard, playing, stopped>>
    /\ ticker' = frames + 2
    /\ scheduled' =
          (IF playing /\ call = "stop"
           THEN stop(scheduled \ {h}) ELSE scheduled \ {h}) \cup {ticker'}

\* The frame callback of handle h runs tick(), `gap` ms after the frame
\* callback before it; the tick listeners, if called, make the call `call`.
\* const current = performance.now(); this.delta = current - this.current.
tick(h, gap, call) ==
    /\ now' = now + gap
    /\ elapsed' = elapsed + (IF playing THEN now' - current ELSE 0)
    /\ cappedSum' = cappedSum + (IF playing THEN Min(gap, DeltaCap) ELSE 0)
    /\ current' = now'
    /\ delta' = Cap(now' - current)
    /\ frames' = frames + 1
    /\ IF playing
       THEN /\ ticks' = ticks + 1
            /\ heard' = [gap |-> gap, delta |-> delta']
            /\ playing' = (call # "pause")
            /\ stopped' = (stopped \/ call = "stop")
       ELSE UNCHANGED <<ticks, heard, playing, stopped>>
    /\ ticker' = frames + 2
    /\ scheduled' =
          (IF playing /\ call = "stop"
           THEN stop(scheduled \ {h}) ELSE scheduled \ {h}) \cup {ticker'}

Frame ==
    \E h \in scheduled, gap \in Gaps, call \in ListenerCalls :
        /\ frames < MaxFrames
        /\ tick(h, gap, call)
        /\ UNCHANGED notTime

Play ==
    /\ play
    /\ UNCHANGED <<current, now, elapsed, delta, ticker, scheduled, frames, ticks,
                   heard, cappedSum, stopped>>
    /\ UNCHANGED notTime

Pause ==
    /\ pause
    /\ UNCHANGED <<current, now, elapsed, delta, ticker, scheduled, frames, ticks,
                   heard, cappedSum, stopped>>
    /\ UNCHANGED notTime

Stop ==
    /\ scheduled' = stop(scheduled)
    /\ stopped' = TRUE
    /\ UNCHANGED <<current, now, elapsed, delta, playing, ticker, frames, ticks,
                   heard, cappedSum>>
    /\ UNCHANGED notTime

NextTime == Frame \/ Play \/ Pause \/ Stop

\* ----------------------------------------------------------- Page, Canvas
\* Page.create and Home.create (the home:enter-ready timer is not kept).
create(p, class) ==
    IF p.created
    THEN p
    ELSE [p EXCEPT !.view = (class = "Home"),
                   !.disposals = 0,
                   !.created = TRUE,
                   !.createdEntered = @ + 1,
                   !.createEvents = @ + 1]

\* Page.onEnter; Home.onEnter first throws its view away and creates again.
\* transitionIn calls its completion callback at once in both classes.
onEnter(p, class) ==
    LET q == IF class = "Home" /\ p.view /\ p.created
             THEN create([p EXCEPT !.view = FALSE, !.created = FALSE,
                                   !.disposals = @ + 1], class)
             ELSE p
    IN  [q EXCEPT !.visible = TRUE,
                  !.isActive = TRUE,
                  !.isTransitioning = FALSE,
                  !.enterEvents = @ + 1]

\* The completion callback that Page.onLeave hands to transitionOut.
leaveComplete(p) ==
    [p EXCEPT !.visible = FALSE, !.isActive = FALSE, !.isTransitioning = FALSE]

\* Mutant: onLeave of every class hides and deactivates the page at once.
onLeave_Immediate(p, class) ==
    LET q == leaveComplete([p EXCEPT !.isTransitioning = TRUE])
        r == IF class = "Home" THEN [q EXCEPT !.timers = @ + 1] ELSE q
    IN  [r EXCEPT !.leaveEvents = @ + 1]

\* Page.onLeave: Page.transitionOut completes at once, Home.transitionOut
\* hides the view and starts a 1400 ms timer.
onLeave(p, class) ==
    LET q == [p EXCEPT !.isTransitioning = TRUE]
        r == IF class = "Home"
             THEN [q EXCEPT !.timers = @ + 1]
             ELSE leaveComplete(q)
    IN  [r EXCEPT !.leaveEvents = @ + 1]

\* The timer of Home.transitionOut fires.
transitionOutTimer(p) ==
    leaveComplete([p EXCEPT !.view = FALSE, !.created = FALSE,
                            !.disposals = IF p.view THEN @ + 1 ELSE @,
                            !.timers = @ - 1])

\* Home.destroy: destroys the view, which stays referenced, and then
\* Page.destroy, which finds no quad left under this.elements.
destroy(p, class) ==
    IF class = "Home" /\ p.view
    THEN [p EXCEPT !.disposals = @ + 1]
    ELSE p

\* Mutant: the current page is dropped without onLeave.
leaveCurrent_NoLeave ==
    IF currentPage # "null"
    THEN /\ currentPage' = "null"
         /\ UNCHANGED pages
    ELSE UNCHANGED <<pages, currentPage>>

\* onChange with a falsy or unregistered identity.
leaveCurrent ==
    IF currentPage # "null"
    THEN /\ pages' = [pages EXCEPT ![currentPage] =
                         onLeave(@, Registry[currentPage])]
         /\ currentPage' = "null"
    ELSE UNCHANGED <<pages, currentPage>>

\* The part of onChange after `await next.load()`, or after the test of
\* next.created when the page is created already.
enterNext(pgs, next, awaited) ==
    LET inst == IF awaited
                THEN [pgs EXCEPT ![next] = create(@, Registry[next])]
                ELSE pgs
    IN  /\ pages' = [inst EXCEPT ![next] = onEnter(@, Registry[next])]
        /\ currentPage' = next

\* Canvas.onChange(pageName, template) up to its first suspension.  On a
\* Canvas whose constructor returned early, registry, pages and currentPage
\* are undefined: a falsy identity returns at once and a truthy one reads
\* this.registry[pageName], which rejects the promise of the async call.
onChange(pageName) ==
    /\ reentered' = IF pageName = currentPage THEN pageName ELSE ""
    /\ requested' = pageName
    /\ IF canvas = "bare"
       THEN /\ errors' = IF pageName = ""
                         THEN errors
                         ELSE errors \cup {"onChange rejected"}
            /\ UNCHANGED <<pages, currentPage, awaiting>>
       ELSE /\ UNCHANGED errors
            /\ IF pageName \notin PageNames
               THEN leaveCurrent /\ UNCHANGED awaiting
               ELSE LET prev == currentPage
                        inst == IF pages[pageName].exists
                                THEN pages
                                ELSE [pages EXCEPT ![pageName] = NewPage]
                        left == IF prev # "null"
                                THEN [inst EXCEPT ![prev] =
                                         onLeave(@, Registry[prev])]
                                ELSE inst
                    IN  IF ~left[pageName].created
                        THEN /\ pages' = left
                             /\ awaiting' = Append(awaiting, pageName)
                             /\ UNCHANGED currentPage
                        ELSE /\ enterNext(left, pageName, FALSE)
                             /\ UNCHANGED awaiting

OnChange ==
    \E pageName \in Identities :
        /\ canvas \in {"ready", "bare"}
        /\ changes < MaxChanges
        /\ onChange(pageName)
        /\ changes' = changes + 1
        /\ lastChange' = pageName
        /\ UNCHANGED canvas
        /\ UNCHANGED notCanvas

\* new Canvas(registry): without a .canvas container the constructor returns
\* early; with one it ends with initCurrentPage, which calls onChange when
\* its own detectPageName finds a registered identity for the document.
NewCanvas ==
    \E hasContainer \in BOOLEAN, pageName \in PageNames \cup {""} :
        /\ canvas = "none"
        /\ canvas' = IF hasContainer THEN "ready" ELSE "bare"
        /\ IF hasContainer /\ pageName # ""
           THEN /\ changes < MaxChanges
                /\ onChange(pageName)
                /\ changes' = changes + 1
                /\ lastChange' = pageName
           ELSE /\ lastChange' = "none"
                /\ UNCHANGED <<pages, currentPage, awaiting, changes, errors,
                               reentered, requested>>
        /\ UNCHANGED notCanvas

\* load() of a suspended onChange has resolved and the call goes on.
LoadResolved ==
    \E i \in 1..Len(awaiting) :
        /\ enterNext(pages, awaiting[i], TRUE)
        /\ awaiting' = [j \in 1..(Len(awaiting) - 1) |->
                           IF j < i THEN awaiting[j] ELSE awaiting[j + 1]]
        /\ lastChange' = "none"
        /\ UNCHANGED <<changes, canvas, errors, reentered, requested>>
        /\ UNCHANGED notCanvas

TransitionOutTimer ==
    \E n \in PageNames :
        /\ pages[n].timers > 0
        /\ pages' = [pages EXCEPT ![n] = transitionOutTimer(@)]
        /\ lastChange' = "none"
        /\ UNCHANGED <<currentPage, awaiting, changes, canvas, errors,
                       reentered, requested>>
        /\ UNCHANGED notCanvas

\* Canvas.destroy(): stops the clock, then onLeave and destroy on every
\* cached page.  No call is made on the canvas afterwards; the timers and
\* the loads that are pending still run.  Without container this.time is
\* undefined and the first statement throws, which leaves the object as it
\* was.
Destroy ==
    /\ canvas \in {"ready", "bare"}
    /\ canvas' = IF canvas = "bare" THEN "bare" ELSE "destroyed"
    /\ IF canvas = "bare"
       THEN /\ errors' = errors \cup {"destroy threw"}
            /\ UNCHANGED <<pages, scheduled, stopped>>
       ELSE /\ scheduled' = stop(scheduled)
            /\ stopped' = TRUE
            /\ pages' = [n \in PageNames |->
                            IF pages[n].exists
                            THEN destroy(onLeave(pages[n], Registry[n]),
                                         Registry[n])
                            ELSE pages[n]]
            /\ UNCHANGED errors
    /\ lastChange' = "none"
    /\ UNCHANGED <<currentPage, awaiting, changes, reentered, requested>>
    /\ UNCHANGED <<current, now, elapsed, delta, playing, ticker, frames, ticks,
                   heard, cappedSum>>
    /\ UNCHANGED <<tcVars, cacheVars, emitterVars, navVars, planeVars,
                   viewVars, bootVars>>

NextCanvas ==
    \/ NewCanvas
    \/ OnChange
    \/ LoadResolved
    \/ TransitionOutTimer
    \/ Destroy

\* ------------------------------------------------------ TransitionManager
\* TransitionManager.detectPageName(to): the page-identity marker of the
\* destination root if it has one, whether registered or not; else the first
\* registry key the URL matches; else null.  "throws" when the lookup reads
\* the keys of the undefined registry of a Canvas without container.
detectPageName(marker, urlKey) ==
    IF marker # ""
    THEN marker
    ELSE IF canvas = "bare" THEN "throws" ELSE urlKey

\* Taxi runs no navigation while one is in progress (allowInterruption is
\* off): a navigation ends when done() is called.
InProgress == Len(navs) > 0 /\ navs[Len(navs)].completions = 0

\* One navigation up to the return of the enter handler: the wrapper's
\* onLeave (GlobalTransition.onLeave calls done at once), Taxi's insertion of
\* the destination root, and the wrapper's onEnter, which starts the enter
\* animation and its safety timer and then swaps the canvas page.
Navigate ==
    \E marker \in Identities, urlKey \in PageNames \cup {""} :
        LET k == Len(navs) + 1
            pageName == detectPageName(marker, urlKey)
        IN  /\ canvas \in {"ready", "bare"}
            /\ k <= MaxNavigations
            /\ ~InProgress
            /\ fromElement' = k - 1
            /\ roots' = roots \cup {k}
            /\ navs' = Append(navs, [pageName |-> pageName,
                                      tl |-> "running", safety |-> TRUE,
                                      completions |-> 0])
            /\ IF pageName = "throws"
               THEN /\ errors' = errors \cup {"onEnter threw"}
                    /\ lastChange' = "none"
                    /\ UNCHANGED <<pages, currentPage, awaiting, changes,
                                   reentered, requested>>
               ELSE IF pageName # ""
               THEN /\ changes < MaxChanges
                    /\ onChange(pageName)
                    /\ changes' = changes + 1
                    /\ lastChange' = pageName
               ELSE /\ lastChange' = "none"
                    /\ UNCHANGED <<pages, currentPage, awaiting, changes,
                                   errors, reentered, requested>>
            /\ UNCHANGED canvas
            /\ UNCHANGED notNavigation

\* The completion callback the wrapper's onEnter hands to the transition:
\* removes this.fromElement, emits transition:complete and calls done().
animationComplete(k, ns) ==
    /\ roots' = roots \ {fromElement}
    /\ navs' = [ns EXCEPT ![k].completions = @ + 1]

\* onComplete of the enter timeline of navigation k.
EnterComplete ==
    \E k \in 1..Len(navs) :
        /\ navs[k].tl = "running"
        /\ animationComplete(k, [navs EXCEPT ![k].tl = "done"])
        /\ UNCHANGED fromElement
        /\ UNCHANGED <<canvasVars, notNavigation>>

\* The 1500 ms safety timer of navigation k fires: it completes the
\* navigation when this.fromElement is still in the document.
SafetyTimeout ==
    \E k \in 1..Len(navs) :
        /\ navs[k].safety
        /\ LET ns == [navs EXCEPT ![k].safety = FALSE]
           IN  IF fromElement \in roots
               THEN animationComplete(k, ns)
               ELSE navs' = ns /\ UNCHANGED roots
        /\ UNCHANGED fromElement
        /\ UNCHANGED <<canvasVars, notNavigation>>

NextNavigation ==
    \/ NewCanvas
    \/ Navigate
    \/ EnterComplete
    \/ SafetyTimeout
    \/ LoadResolved
    \/ TransitionOutTimer

\* ----------------------------------------------------------------- HomeView
\* The layout moves, resizes or hides the element of quad i.
Layout ==
    \E i \in Planes, r \in Rects :
        /\ planes' = [planes EXCEPT ![i].rect = r]
        /\ UNCHANGED <<updates, viewDelta, target>>
        /\ UNCHANGED notPlane

\* mouseenter on the container of quad i: HomeView.onHoverEnter.  The
\* pointer is over one container at a time.
HoverEnter ==
    \E i \in Planes, mobile \in BOOLEAN :
        /\ \A j \in Planes \ {i} : ~planes[j].isHovered
        /\ planes' = IF mobile \/ planes[i].isHovered
                     THEN planes
                     ELSE [planes EXCEPT ![i].isHovered = TRUE]
        /\ UNCHANGED <<updates, viewDelta, target>>
        /\ UNCHANGED notPlane

\* mouseleave on the container of quad i: HomeView.onHoverLeave.
HoverLeave ==
    \E i \in Planes, mobile \in BOOLEAN :
        /\ planes' = IF mobile \/ ~planes[i].isHovered
                     THEN planes
                     ELSE [planes EXCEPT ![i].isHovered = FALSE]
        /\ UNCHANGED <<updates, viewDelta, target>>
        /\ UNCHANGED notPlane

\* mousemove on the container of quad i (targetMouseUV is not kept).
MouseMove ==
    \E i \in Planes, e \in Pointers :
        /\ planes' =
              IF ~planes[i].isHovered
              THEN planes
              ELSE [planes EXCEPT ![i].targetWorldPos =
                      [x |-> 2 * e.x * Viewport.width
                                - Viewport.width * Screen.width,
                       y |-> Viewport.height * Screen.height
                                - 2 * e.y * Viewport.height]]
        /\ UNCHANGED <<updates, viewDelta, target>>
        /\ UNCHANGED notPlane

\* HomeView.update({ delta }): updatePlanesPositions, updateHoveredPlanes.
Update ==
    \E d \in FrameDeltas :
        /\ updates < MaxUpdates
        /\ planes' = [i \in Planes |->
                         updateHoveredPlanes(updatePlanePosition(planes[i]), d)]
        /\ updates' = updates + 1
        /\ viewDelta' = d
        /\ UNCHANGED target
        /\ UNCHANGED notPlane

\* animateToDOM(targetRect, viewport, screen) computes its targets.
AnimateTarget ==
    \E r \in Rects :
        /\ target' = [set |-> TRUE, rect |-> r,
                       x |-> targetX(r), y |-> targetY(r),
                       width |-> targetWidth(r), height |-> targetHeight(r)]
        /\ UNCHANGED <<planes, updates, viewDelta>>
        /\ UNCHANGED notPlane

NextPlane ==
    \/ Layout
    \/ HoverEnter
    \/ HoverLeave
    \/ MouseMove
    \/ Update
    \/ AnimateTarget


\* --------------------------------------------------------------- HomeView
\* if (loaded === uniqueSrcs.size)
allLoaded(n, t) == n = Cardinality(uniqueSrcs(t))

\* HomeView.createPlanes(images) with this.textures = tex: a quad for each
\* image whose src has a texture entry, then every image of the template
\* gets style.opacity = '0'.
createPlanes(tex) ==
    /\ imagePlanes' =
          imagePlanes \cup {i \in 1..Len(template) : template[i] \in tex}
    /\ imgHidden' = 1..Len(template)

\* new HomeView(options): the constructor calls loadImages(), which starts
\* one TextureCache.load per unique src; nothing when there is no image.
NewHomeView ==
    \E t \in Templates :
        /\ viewState = "none"
        /\ viewState' = "live"
        /\ template' = t
        /\ viewLoads' = [s \in Urls |->
              IF s \in uniqueSrcs(t) THEN "pending" ELSE "idle"]
        /\ UNCHANGED <<loaded, textures, imagePlanes, imgHidden, viewDisposed>>
        /\ UNCHANGED notView

\* The .then of one load: the texture is pushed, loaded++, and the planes
\* are created when loaded equals the number of unique srcs.
TextureLoaded ==
    \E s \in Urls :
        /\ viewLoads[s] = "pending"
        /\ viewLoads' = [viewLoads EXCEPT ![s] = "loaded"]
        /\ textures' = textures \cup {s}
        /\ loaded' = loaded + 1
        /\ IF allLoaded(loaded', template)
           THEN createPlanes(textures')
           ELSE UNCHANGED <<imagePlanes, imgHidden>>
        /\ UNCHANGED <<viewState, template, viewDisposed>>
        /\ UNCHANGED notView

\* The .catch of one load: console.error, nothing else.
TextureError ==
    \E s \in Urls :
        /\ viewLoads[s] = "pending"
        /\ viewLoads' = [viewLoads EXCEPT ![s] = "failed"]
        /\ UNCHANGED <<viewState, template, loaded, textures, imagePlanes,
                       imgHidden, viewDisposed>>
        /\ UNCHANGED notView

\* DOMPlane.destroy(): abort the listeners, dispose the geometry and the
\* material of every tracked quad, take the group out of its parent. The
\* imagePlanes array is left as it is.
ViewDestroy ==
    /\ viewState = "live"
    /\ viewState' = "destroyed"
    /\ viewDisposed' = imagePlanes
    /\ UNCHANGED <<template, viewLoads, loaded, textures, imagePlanes,
                   imgHidden>>
    /\ UNCHANGED notView

NextView == NewHomeView \/ TextureLoaded \/ TextureError \/ ViewDestroy


\* ------------------------------------------------------- App and Preloader
\* new TransitionManager({ pages, pageTransitions }) evaluated with m
\* instances so far: one more instance, unless the constructor throws
\* (no WebGL context, Taxi without its wrapper).
newTransitionManager(m, throws) == IF throws THEN m ELSE m + 1

\* The .catch of preloader.start() in App.initApp: the wrapper, if any, is
\* taken off the page and the application is started if the preloader has
\* not done so.
catchStart(p, secondThrows) ==
    /\ preloader' = [p EXCEPT !.phase = "rejected", !.hidden = p.wrapper,
                              !.attempts = IF p.appStarted THEN @ ELSE @ + 1]
    /\ managers' = IF p.appStarted
                   THEN managers
                   ELSE newTransitionManager(managers, secondThrows)

\* new App(): new Preloader(...) and preloader.start() up to its first
\* await. Without the loader wrapper the constructor calls onComplete and
\* returns, and start() returns at once; with it start() awaits
\* loadAssets(), one TextureCache.load per img of the document.
NewApp ==
    \E hasWrapper \in BOOLEAN, total \in 0..MaxImages :
        /\ preloader.phase = "none"
        /\ preloader' =
              [phase |-> IF ~hasWrapper THEN "resolved"
                         ELSE IF total = 0 THEN "starting" ELSE "loading",
               wrapper |-> hasWrapper,
               assets |-> IF hasWrapper THEN [i \in 1..total |-> "pending"]
                          ELSE <<>>,
               appStarted |-> FALSE,
               readyFired |-> FALSE,
               hidden |-> FALSE,
               attempts |-> 0]
        /\ UNCHANGED managers
        /\ UNCHANGED notBoot

\* One load of loadAssets settles; .then and .catch both count it. When
\* the last one has, start() goes on to its 100 ms wait.
AssetSettled ==
    \E i \in 1..MaxImages, ok \in BOOLEAN :
        /\ preloader.phase = "loading"
        /\ i \in DOMAIN preloader.assets
        /\ preloader.assets[i] = "pending"
        /\ LET a == [preloader.assets EXCEPT
                        ![i] = IF ok THEN "loaded" ELSE "failed"]
           IN  preloader' =
                  [preloader EXCEPT
                     !.assets = a,
                     !.phase = IF \A j \in DOMAIN a : a[j] # "pending"
                               THEN "starting" ELSE "loading"]
        /\ UNCHANGED managers
        /\ UNCHANGED notBoot

\* The 100 ms timer of start(): this.onAppStart(); this.appStarted = true;
\* then waitForPageReady(). If onAppStart throws, start() rejects before
\* appStarted is set and the .catch of initApp runs.
AppStart ==
    \E throws \in BOOLEAN, secondThrows \in BOOLEAN :
        /\ preloader.phase = "starting"
        /\ IF throws
           THEN catchStart([preloader EXCEPT !.attempts = @ + 1],
                           secondThrows)
           ELSE /\ managers' = newTransitionManager(managers, FALSE)
                /\ preloader' =
                      [preloader EXCEPT
                         !.attempts = @ + 1,
                         !.appStarted = TRUE,
                         !.phase = IF preloader.readyFired
                                   THEN "finishing" ELSE "waiting"]
        /\ UNCHANGED notBoot

\* home:enter-ready is emitted (by the Home page the canvas has created):
\* the once listeners of the constructor and of waitForPageReady run.
ReadySignal ==
    /\ preloader.wrapper
    /\ managers > 0
    /\ ~preloader.readyFired
    /\ preloader' =
          [preloader EXCEPT
             !.readyFired = TRUE,
             !.phase = IF @ = "waiting" THEN "finishing" ELSE @]
    /\ UNCHANGED managers
    /\ UNCHANGED notBoot

\* The 2000 ms timer of waitForPageReady: resolves if the signal has not
\* arrived.
ReadyTimeout ==
    /\ preloader.phase = "waiting"
    /\ ~preloader.readyFired
    /\ preloader' = [preloader EXCEPT !.phase = "finishing"]
    /\ UNCHANGED managers
    /\ UNCHANGED notBoot

\* The rest of start(): the minimum duration, complete() and animateOut().
\* start() resolves, or rejects if one of them throws.
Complete ==
    \E ok \in BOOLEAN, secondThrows \in BOOLEAN :
        /\ preloader.phase = "finishing"
        /\ IF ok
           THEN /\ preloader' = [preloader EXCEPT !.phase = "resolved"]
                /\ UNCHANGED managers
           ELSE catchStart(preloader, secondThrows)
        /\ UNCHANGED notBoot

NextBoot ==
    NewApp \/ AssetSettled \/ AppStart \/ ReadySignal \/ ReadyTimeout
        \/ Complete

\* ---------------------------------------------------------- specifications
SpecTransition == Init /\ [][NextTransition]_vars

\* The gsap ticker runs on every animation frame while a timeline exists.
SpecTransitionLive == Init /\ [][NextTransition]_vars /\ WF_vars(Tick)

SpecCache == Init /\ [][NextCache]_vars

SpecEmitter == Init /\ [][NextEmitter]_vars

SpecTime == Init /\ [][NextTime]_vars

SpecCanvas == Init /\ [][NextCanvas]_vars

SpecNavigation == Init /\ [][NextNavigation]_vars

SpecPlane == Init /\ [][NextPlane]_vars

SpecView == Init /\ [][NextView]_vars

SpecBoot == Init /\ [][NextBoot]_vars

\* ================================================== TransitionController
\* Steps of SpecTransition are told apart by lastCall, which every handler
\* call rewrites (seq flips on each call).
PrepareCalled(mesh) == lastCall'.op = "prepare" /\ lastCall'.arg = mesh
SessionOpen == activePageTransition.status \in {"waiting-for-target", "animating"}
OldMesh == activePageTransition.mesh
OldSource == activePageTransition.sourcePlane

\* What C1 says of everything but the source quad: one session, the new
\* one, waiting; the old clone out of the scene and disposed; the timeline
\* the controller held killed.
ExclusiveAfterPrepare ==
    /\ activePageTransition'.status = "waiting-for-target"
    /\ activePageTransition'.mesh = nextMesh'
    /\ activePageTransition'.mesh # OldMesh
    /\ transitionMesh' = activePageTransition'.mesh
    /\ scene' = {activePageTransition'.mesh}
    /\ OldMesh \notin scene'
    /\ OldMesh \in disposed'
    /\ activePageTransition'.mesh \notin disposed'
    /\ timeline # 0 => (timeline \in killed' /\ timeline \notin DOMAIN timelines')

C2_AtMostOneSession ==
    /\ Cardinality(scene) <= 1
    /\ Cardinality((1..nextMesh) \ disposed) <= 1
    /\ scene \subseteq {transitionMesh}
    /\ transitionMesh # 0 => activePageTransition.mesh = transitionMesh
    /\ \A m \in 1..nextMesh :
          m # activePageTransition.mesh => (m \in disposed /\ m \notin scene)

C2_Witness ==
    /\ nextMesh = 2
    /\ scene = {2}
    /\ 1 \in disposed
    /\ activePageTransition.status = "animating"

\* C3: happy path.  A valid prepare when idle opens a waiting session with
\* the clone in the scene and the source hidden; a target-ready with a rect
\* that follows moves it to animating with the animation running; the
\* frame in which the animation timeline ends clears the session, removes
\* the clone, shows the source quad, and a prepare is accepted at once.
C3_HappyPath ==
    [][/\ \A q \in Quads :
            (PrepareCalled(q) /\ activePageTransition.status = "null") =>
                /\ activePageTransition'.status = "waiting-for-target"
                /\ activePageTransition'.sourcePlane = q
                /\ activePageTransition'.mesh \in scene'
                /\ transitionMesh' = activePageTransition'.mesh
                /\ ~sourceVisible'[q]
       /\ ( /\ lastCall'.op = "target-ready" /\ lastCall'.arg = 1
            /\ activePageTransition.status = "waiting-for-target"
            /\ transitionMesh # 0 ) =>
                /\ activePageTransition'.status = "animating"
                /\ activePageTransition'.mesh = OldMesh
                /\ AnimateTl(OldMesh) \in DOMAIN timelines'
                /\ OldMesh \in scene'
       /\ \A m \in MeshIds :
            (AnimateTl(m) \in finished' \ finished) =>
                /\ lastCall'.op = "tick"
                /\ ~hasActiveTransition(State)'
                /\ scene' = {}
                /\ m \in disposed'
                /\ sourceVisible'[OldSource]
                /\ \A q \in Quads :
                     handleTransitionPrepare(State, FALSE, q)'
                        .activePageTransition.status = "waiting-for-target"
      ]_tcVars

C3_Witness ==
    /\ lastCall.op = "tick"
    /\ AnimateTl(1) \in finished
    /\ nextMesh = 1
    /\ activePageTransition = NullSession
    /\ scene = {}
    /\ \A q \in Quads : sourceVisible[q]

\* C4: cancel() with a session waiting or animating removes and disposes
\* the clone, kills the timeline the controller holds and shows the source
\* quad; cancel() when idle, or right after another cancel(), changes
\* nothing.
C4_Cancel ==
    [][lastCall'.op = "cancel" =>
        /\ SessionOpen =>
              /\ scene' = {}
              /\ transitionMesh' = 0
              /\ transitionMesh # 0 => transitionMesh \in disposed'
              /\ OldMesh \in disposed'
              /\ timeline' = 0
              /\ timeline # 0 =>
                    (timeline \in killed' /\ timeline \notin DOMAIN timelines')
              /\ sourceVisible'[OldSource]
        /\ (activePageTransition.status = "null" \/ lastCall.op = "cancel")
              => UNCHANGED tcState
      ]_tcVars

C4_Witness ==
    /\ lastCall.op = "cancel"
    /\ activePageTransition.status = "animating"
    /\ AnimateTl(1) \in killed
    /\ 1 \in disposed
    /\ scene = {}
    /\ sourceVisible[activePageTransition.sourcePlane]

\* C5: a target-ready event with no session open, or with a session that is
\* not waiting for its target, changes nothing.
C5_TargetReadyIgnored ==
    [][(lastCall'.op = "target-ready"
          /\ activePageTransition.status # "waiting-for-target")
        => UNCHANGED tcState]_tcVars

C5_Witness ==
    /\ lastCall.op = "target-ready"
    /\ activePageTransition.status = "animating"
    /\ AnimateTl(1) \in DOMAIN timelines
    /\ timelines[AnimateTl(1)].time > 0

Emitted(log, e) == Cardinality({i \in 1..Len(log) : log[i].event = e})

\* C6 (as stated): the frame in which a transition's timeline completes and
\* cleanup runs emits webgl:transition:complete exactly once.
C6_CompleteEmitted ==
    [][\A m \in MeshIds :
        (AnimateTl(m) \in finished' \ finished) =>
            Emitted(emitLog', "webgl:transition:complete")
                = Emitted(emitLog, "webgl:transition:complete") + 1]_tcVars

Handoffs(m) == {i \in 1..Len(emitLog) :
                    /\ emitLog[i].event = "webgl:transition:handoff"
                    /\ emitLog[i].mesh = m}

\* C7: every transition whose animation timeline ran to its end emitted
\* webgl:transition:handoff exactly once, in the frame in which the
\* playhead reached 1.3 s, with the clone in the scene and its opacity above
\* zero; nothing is emitted in any other step, and never after the clone
\* was removed.
C7_Handoff ==
    /\ [](\A m \in MeshIds :
            /\ AnimateTl(m) \in finished => Cardinality(Handoffs(m)) = 1
            /\ Cardinality(Handoffs(m)) <= 1
            /\ \A i \in Handoffs(m) :
                  emitLog[i].inScene /\ emitLog[i].opacity > 0)
    /\ [][Len(emitLog') # Len(emitLog) =>
            /\ lastCall'.op = "tick"
            /\ Len(emitLog') = Len(emitLog) + 1
            /\ transitionMesh # 0 /\ transitionMesh \in scene
            /\ emitLog'[Len(emitLog')].mesh = transitionMesh
            /\ timelines[AnimateTl(transitionMesh)].time < HandoffAt
            /\ HandoffAt < AnimateDuration
            /\ (AnimateTl(transitionMesh) \in DOMAIN timelines' =>
                  timelines'[AnimateTl(transitionMesh)].time >= HandoffAt)
         ]_tcVars

C7_Witness ==
    /\ AnimateTl(1) \in finished
    /\ Cardinality(Handoffs(1)) = 1
    /\ 1 \notin scene

\* C8: a prepare event under the narrow-viewport condition changes nothing.
C8_MobileSuppression ==
    [][PrepareCalled(-1) => UNCHANGED tcState]_tcVars

C8_Witness ==
    /\ lastCall.op = "prepare"
    /\ lastCall.arg = -1
    /\ activePageTransition = NullSession
    /\ scene = {}
    /\ nextMesh = 0
    /\ \A q \in Quads : sourceVisible[q]

\* ============================================================ TextureCache
InFlight(u) == {p \in 1..Len(promises) :
                    promises[p].src = u /\ promises[p].state = "pending"}

\* C9 (as stated): a load(U) issued while an earlier load(U) has not
\* completed, with no clear() between the two, starts no second fetch and
\* returns the promise the earlier call returned, so every such caller gets
\* the same texture or the same error.
C9_SingleFlight ==
    [][\A i \in 1..Len(calls) :
        ( /\ Len(calls') = Len(calls) + 1
          /\ calls[i].src # NoSource
          /\ calls'[Len(calls')].src = calls[i].src
          /\ ~calls[i].cleared
          /\ calls[i].promise # 0
          /\ promises[calls[i].promise].state = "pending" ) =>
            /\ Len(promises') = Len(promises)
            /\ calls'[Len(calls')].promise = calls[i].promise]_vars

\* C10 (as stated): in every reachable state at most one fetch per URL is
\* in flight.
C10_OneFetchPerUrl == \A u \in Urls : Cardinality(InFlight(u)) <= 1

\* C11: when the fetch of a load(U) fails, its promise rejects, U leaves
\* the pending map and nothing is put into the cache (has(U) stays as it
\* was, so false stays false); no load() ever hands back a promise that
\* has already rejected, and a load(U) that finds U neither cached nor
\* pending after a failure starts a new fetch.
C11_FailureNotCached ==
    [][/\ \A p \in 1..Len(promises) :
            (promises[p].state = "pending" /\ promises'[p].state = "rejected")
            => /\ pending'[promises[p].src] = 0
               /\ cache' = cache
               /\ (~has(promises[p].src) => ~has(promises[p].src)')
       /\ Len(calls') = Len(calls) + 1 =>
            LET c == calls'[Len(calls')]
            IN  /\ c.promise # 0 => promises'[c.promise].state = "pending"
                /\ ( /\ c.src # NoSource
                     /\ \E p \in 1..Len(promises) :
                            /\ promises[p].src = c.src
                            /\ promises[p].state = "rejected"
                     /\ ~has(c.src)
                     /\ pending[c.src] = 0 )
                   => /\ Len(promises') = Len(promises) + 1
                      /\ c.promise = Len(promises')
                      /\ pending'[c.src] = c.promise
      ]_vars

C11_Witness ==
    \E p, q \in 1..Len(promises) :
        /\ p < q
        /\ promises[p].src = promises[q].src
        /\ promises[p].state = "rejected"
        /\ promises[q].state = "pending"
        /\ pending[promises[q].src] = q
        /\ \A i \in 1..Len(calls) : ~calls[i].cleared

\* A fetch whose load() was issued before a clear().
PredatesClear(p) ==
    \E i \in 1..Len(calls) : calls[i].promise = p /\ calls[i].cleared

\* C12 (as stated): after clear() nothing is cached until a load() issued
\* after that clear() resolves: every texture in the cache comes from a
\* fetch started after the last clear(), and a fetch that was in flight
\* when clear() ran never puts its texture into the cache.
C12_ClearForgets ==
    \A u \in Urls : has(u) => ~PredatesClear(get(u))

\* The functions of a handler list, in list order.
Fns(entries) == [i \in 1..Len(entries) |-> entries[i].fn]

\* C13: emit(e) invokes exactly the handlers registered for e when emit
\* was called, once each and in registration order: the functions a pass
\* has entered are always the first ones of the list registered at emit
\* time, in that order, and the pass ends only when all of them have been
\* entered, whatever the running handlers added or removed meanwhile.
C13_SnapshotDispatch ==
    [][/\ \A i \in 1..Len(stack') :
            /\ Len(stack'[i].invoked) <= Len(stack'[i].entries)
            /\ stack'[i].invoked =
                   SubSeq(Fns(stack'[i].entries), 1, Len(stack'[i].invoked))
       /\ Len(stack') > Len(stack) =>
            stack'[Len(stack')].entries = events[stack'[Len(stack')].event]
       /\ Len(stack') < Len(stack) =>
            stack[Len(stack)].invoked = Fns(stack[Len(stack)].entries)
      ]_vars

\* A pass is running its last handler, which a handler of the pass has
\* removed, and a handler of the pass has added one that is not run.
C13_Witness ==
    /\ Len(stack) = 1
    /\ LET f == stack[1]
           live == events[f.event]
       IN  /\ Len(f.entries) >= 2
           /\ Len(f.invoked) = Len(f.entries)
           /\ \A i \in 1..Len(live) : live[i] # f.entries[Len(f.entries)]
           /\ \E i \in 1..Len(live) :
                \A j \in 1..Len(f.entries) : live[i].fn # f.entries[j].fn

\* C14 (as stated): a handler registered with once() is invoked exactly
\* once in total, also under re-entrant emits: no wrapper made by once()
\* calls its callback a second time.
C14_OnceExactlyOnce ==
    \A k \in 1..Len(wrappers) : wrappers[k].calls <= 1

\* C15: off(e, null, ns) removes exactly the handlers registered on e
\* under ns: the list of e becomes its former list without the entries of
\* namespace ns, in the same order, and the lists of all other events are
\* unchanged.
C15_OffNamespace ==
    [][lastOp' # NoOff =>
         /\ events'[lastOp'.event] =
                SelectSeq(events[lastOp'.event],
                          LAMBDA entry : entry.ns # lastOp'.ns)
         /\ \A e \in EventNames \ {lastOp'.event} : events'[e] = events[e]
      ]_vars

\* off(e, null, ns) has removed a handler of e and left one with another
\* namespace, one with no namespace, and one of another event under ns.
C15_Witness ==
    /\ lastOp # NoOff
    /\ lastOp.removed > 0
    /\ \E i \in 1..Len(events[lastOp.event]) :
            events[lastOp.event][i].ns = NoNamespace
    /\ \E e \in EventNames \ {lastOp.event} :
            \E i \in 1..Len(events[e]) : events[e][i].ns = lastOp.ns

\* C16: at every tick the delta that the tick listeners read is
\* min(now - time of the previous tick(), 60): never more than 60.
C16_DeltaCap ==
    /\ heard.delta = Min(heard.gap, DeltaCap)
    /\ heard.delta <= DeltaCap

C16_Witness ==
    /\ ticks > 1
    /\ heard.gap > DeltaCap
    /\ heard.delta = DeltaCap

\* C17 (as stated): elapsed is the sum of min(gap, 60) over exactly the
\* frames that ran while playing.
C17_ElapsedCapped ==
    elapsed = cappedSum

\* C18 (as stated): once stop() has returned, between two frames or inside
\* a tick listener, no frame callback runs and no tick event is emitted,
\* whatever play() calls follow.
C18_StopTerminal ==
    [][stopped => (frames' = frames /\ ticks' = ticks)]_vars

\* C37: pause gating. While Time is paused no step emits a tick or changes
\* elapsed, and a frame callback that runs while paused still schedules the
\* next one; a frame callback that runs while playing, the first one after
\* play() included, emits a tick, and the delta it leaves is the capped gap
\* since the frame callback before it, however long the pause lasted.
C37_PauseGating ==
    [][/\ ~playing => (ticks' = ticks /\ elapsed' = elapsed)
       /\ (frames' # frames /\ ~playing) =>
              (ticker' # ticker /\ ticker' \in scheduled')
       /\ (frames' # frames /\ playing) =>
              /\ ticks' = ticks + 1
              /\ delta' = Min(now' - now, DeltaCap)
              /\ heard'.delta = delta']_vars

\* A tick after a pause that lasted longer than the gap the tick reports:
\* frames ran while paused, and play() was called since.
C37_Witness ==
    /\ playing
    /\ frames > ticks
    /\ ticks > 1
    /\ current = now
    /\ now > heard.gap * ticks
    /\ delta = Min(heard.gap, DeltaCap)
    /\ ticker \in scheduled

\* C19 (as stated): for every page instance, Home included, the Created
\* state is entered at most once and the create event is fired at most
\* once, whatever calls of create, onEnter and onLeave are made on it.
C19_CreatedOnce ==
    \A n \in PageNames :
        /\ pages[n].createdEntered <= 1
        /\ pages[n].createEvents <= 1

\* C20: onChange with a falsy or unregistered identity calls onLeave on
\* the current page and sets currentPage to null, and it instantiates,
\* creates and activates no page; with no current page nothing changes.
C20_AbsentIdentity ==
    [][(changes' = changes + 1 /\ lastChange' \notin PageNames) =>
         /\ currentPage' = "null"
         /\ awaiting' = awaiting
         /\ IF currentPage = "null"
            THEN pages' = pages
            ELSE /\ pages'[currentPage].leaveEvents =
                        pages[currentPage].leaveEvents + 1
                 /\ \A n \in PageNames \ {currentPage} : pages'[n] = pages[n]
         /\ \A n \in PageNames :
              /\ pages'[n].exists = pages[n].exists
              /\ pages'[n].created = pages[n].created
              /\ pages'[n].createEvents = pages[n].createEvents
              /\ pages'[n].enterEvents = pages[n].enterEvents
              /\ pages'[n].isActive => pages[n].isActive
      ]_vars

\* The second onChange call had an absent identity and has left the page
\* that the first one entered.
C20_Witness ==
    /\ changes = 2
    /\ lastChange \in Identities \ PageNames
    /\ currentPage = "null"
    /\ \E n \in PageNames :
         /\ pages[n].enterEvents = 1
         /\ pages[n].leaveEvents = 1


\* C29 (as stated): when cancel() returns no session is open:
\* hasActiveTransition() is false.
C29_CancelCloses ==
    [][(lastCall' # lastCall /\ lastCall'.op = "cancel") =>
         activePageTransition'.status = "null"]_vars

\* C30 (as stated): every session that has accepted target-ready, with or
\* without rect and whatever the delay since prepare, eventually returns to
\* idle: the session is closed, its clone is out of the scene and its
\* source quad is visible (unless a later session has hidden it again).
C30_AnimatingEnds ==
    \A m \in MeshIds :
        (activePageTransition.status = "animating"
            /\ activePageTransition.mesh = m) ~>
        (/\ activePageTransition.mesh # m
         /\ m \notin scene
         /\ \A q \in Quads :
               sourceVisible[q] \/ activePageTransition.sourcePlane = q)

\* C31: a session in waiting-for-target is changed by target-ready, prepare
\* and cancel only: a ticker frame, however late, leaves the session, the
\* scene and the visibility of every quad as they are, so a session that
\* has its clone in the scene and its source quad hidden keeps them.
C31_WaitingForever ==
    [][(/\ lastCall' # lastCall
        /\ lastCall'.op = "tick"
        /\ activePageTransition.status = "waiting-for-target") =>
         /\ activePageTransition' = activePageTransition
         /\ transitionMesh' = transitionMesh
         /\ scene' = scene
         /\ sourceVisible' = sourceVisible]_vars

\* The reset timeline has run to its end and the session still waits, with
\* the clone in the scene and the source quad hidden.
C31_Witness ==
    /\ lastCall.op = "tick"
    /\ activePageTransition.status = "waiting-for-target"
    /\ ResetTl(activePageTransition.mesh) \in finished
    /\ DOMAIN timelines = {}
    /\ transitionMesh = activePageTransition.mesh
    /\ transitionMesh \in scene
    /\ ~sourceVisible[activePageTransition.sourcePlane]

\* C32 (as stated): across prepare, every ticker frame, completion and
\* cancel, the controller never disposes the geometry the clone shares with
\* the source quad.
C32_SourceGeometryKept ==
    \A q \in Quads : ~sourceGeometryDisposed[q]

\* ===================================================== TransitionManager
\* C21 (as stated): a navigation whose destination root has no page-identity
\* marker and whose URL matches no registry key calls Canvas.onChange(null,
\* root): the page that was current gets onLeave and currentPage becomes
\* null.
C21_NullNavigation ==
    [][(/\ Len(navs') > Len(navs)
        /\ canvas = "ready"
        /\ navs'[Len(navs')].pageName = "") =>
         /\ changes' = changes + 1
         /\ currentPage' = "null"
         /\ currentPage # "null" =>
              pages'[currentPage].leaveEvents =
                  pages[currentPage].leaveEvents + 1]_vars


\* C26 (as stated): when no .canvas container exists, the leave and enter
\* handlers of every navigation run without an exception and without a
\* rejected promise, and no WebGL page is activated.
C26_NoContainerNoError ==
    canvas = "bare" =>
        /\ errors = {}
        /\ \A n \in PageNames : ~pages[n].isActive

\* C28 (as stated): a navigation calls Canvas.onChange only after the
\* completion callback of its enter transition has removed the outgoing root
\* and emitted transition:complete.
C28_ChangeAfterComplete ==
    [][(Len(navs') > Len(navs) /\ changes' = changes + 1) =>
         /\ navs'[Len(navs')].completions > 0
         /\ fromElement' \notin roots']_vars


\* C36 (as stated): the enter-completion sequence of a navigation (remove
\* the outgoing root, restart scroll, re-create the components, emit
\* transition:complete, call done) runs exactly once, also when the next
\* navigation starts before the safety timer of this one has fired: once
\* the enter timeline and the safety timer of a navigation are both over,
\* its sequence has run once.
C36_CompletionOnce ==
    \A k \in 1..Len(navs) :
        /\ navs[k].completions <= 1
        /\ (navs[k].tl = "done" /\ ~navs[k].safety) =>
               navs[k].completions = 1

\* ================================================================ Canvas
\* C22 (as stated): onChange with the identity of the page that is current
\* already is safe: once the call, the loads it waits for and the timers of
\* transitionOut have all run, that page is currentPage, active and visible.
C22_SamePageSafe ==
    (/\ reentered # ""
     /\ awaiting = <<>>
     /\ \A n \in PageNames : pages[n].timers = 0) =>
        /\ currentPage = reentered
        /\ pages[reentered].isActive
        /\ pages[reentered].visible

\* C33 (as stated): once every load and every transitionOut timer has
\* completed, whatever onChange calls were made, also while an earlier call
\* was suspended at its load, the only active page is currentPage, and
\* currentPage is the page of the most recent onChange call.
C33_OneActivePage ==
    (/\ canvas # "bare"
     /\ requested # "none"
     /\ awaiting = <<>>
     /\ \A n \in PageNames : pages[n].timers = 0) =>
        /\ \A n \in PageNames : pages[n].isActive => n = currentPage
        /\ currentPage = IF requested \in PageNames
                         THEN requested ELSE "null"

\* C34 (as stated): onChange with a registered identity whose page is not
\* created calls onLeave on the previous page and suspends at load(); when
\* the load has resolved it calls create once, sets currentPage and calls
\* onEnter.  For a page that is created it calls onLeave on the previous
\* page, sets currentPage and calls onEnter at once, with no load and no
\* create.
C34_CallOrder ==
    [][/\ (/\ changes' = changes + 1
           /\ canvas' = "ready"
           /\ lastChange' \in PageNames) =>
             LET id == lastChange'
                 prev == currentPage
                 was == IF pages[id].exists THEN pages[id] ELSE NewPage
             IN  /\ (prev # "null" /\ prev # id) =>
                        pages'[prev].leaveEvents = pages[prev].leaveEvents + 1
                 /\ IF was.created
                    THEN /\ awaiting' = awaiting
                         /\ currentPage' = id
                         /\ pages'[id].enterEvents = was.enterEvents + 1
                         /\ pages'[id].createEvents = was.createEvents
                    ELSE /\ awaiting' = Append(awaiting, id)
                         /\ currentPage' = currentPage
                         /\ pages'[id].enterEvents = was.enterEvents
                         /\ pages'[id].createEvents = was.createEvents
       /\ Len(awaiting') < Len(awaiting) =>
             LET id == currentPage'
             IN  /\ id \in PageNames
                 /\ pages'[id].enterEvents = pages[id].enterEvents + 1
                 /\ pages'[id].leaveEvents = pages[id].leaveEvents
                 /\ pages'[id].createEvents =
                       pages[id].createEvents
                         + (IF pages[id].created THEN 0 ELSE 1)]_vars

\* C35: onLeave emits leave during the call, while the group is hidden and
\* isActive is cleared only by the completion callback of transitionOut:
\* at once for a page that keeps Page.transitionOut, by the 1400 ms timer
\* for Home.  Until the timer fires a Home that was active stays active and
\* visible and keeps its view, so its per-frame update still runs.
C35_SplitDeactivation ==
    [][\A n \in PageNames :
         LET left == pages'[n].leaveEvents = pages[n].leaveEvents + 1
             fired == pages'[n].timers < pages[n].timers
         IN  /\ ((pages[n].isActive /\ ~pages'[n].isActive)
                    \/ (pages[n].visible /\ ~pages'[n].visible)) =>
                   (fired \/ (left /\ Registry[n] = "Page"))
             /\ (left /\ Registry[n] = "Home") =>
                   /\ pages'[n].timers = pages[n].timers + 1
                   /\ pages[n].isActive => pages'[n].isActive
                   /\ pages[n].visible => pages'[n].visible
                   /\ (pages[n].isActive /\ pages[n].view) => pages'[n].view
        ]_vars

\* Home has been left and its timer has not fired: the page is still
\* active and visible, with its view.
C35_Witness ==
    /\ pages["home"].leaveEvents = 1
    /\ pages["home"].enterEvents = 1
    /\ pages["home"].timers = 1
    /\ pages["home"].isActive
    /\ pages["home"].visible
    /\ pages["home"].view
    /\ currentPage # "home"

\* C27 (as stated): after Canvas.destroy() and all the timers it leaves
\* pending have fired, the geometry and the material of every quad of the
\* view of each cached Home page have been disposed exactly once.
C27_DisposedOnce ==
    (/\ canvas = "destroyed"
     /\ awaiting = <<>>
     /\ \A n \in PageNames : pages[n].timers = 0) =>
        \A n \in PageNames :
            (pages[n].exists /\ pages[n].createEvents > 0
                             /\ Registry[n] = "Home") =>
                pages[n].disposals = 1

\* ============================================================== DOMPlane
\* C23 (as stated): after updatePlanesPositions every quad whose element
\* has a non-zero width and height is at the world position computed from
\* the element's current bounding rect, whatever hover enter and leave
\* happened before, and a quad whose element has zero size stays where it
\* was.  Stated for the quads that are not hovered during the update, whose
\* position the rest of update leaves alone.
C23_PositionSynced ==
    [][updates' = updates + 1 =>
         \A i \in Planes :
            ~planes[i].isHovered =>
               IF planes[i].rect.width # 0 /\ planes[i].rect.height # 0
               THEN planes'[i].position =
                       [x |-> updateX(planes[i].rect.left,
                                      planes[i].rect.width),
                        y |-> updateY(planes[i].rect.top,
                                      planes[i].rect.height)]
               ELSE planes'[i].position = planes[i].position]_vars

\* C24: one updateHoveredPlanes(delta) leaves every quad that is not hovered
\* with uOffset and uMouseVelocity exactly {0, 0}, and advances its uTime
\* by delta * 0.001.
C24_RestZeroed ==
    [][updates' = updates + 1 =>
         \A i \in Planes :
            ~planes[i].isHovered =>
               /\ planes'[i].uOffset = Zero
               /\ planes'[i].uMouseVelocity = Zero
               /\ planes'[i].uTime = planes[i].uTime + viewDelta']_vars

\* A quad that was hovered and moved short of its target, so that its
\* uniforms were not zero, has been updated after the pointer left.
C24_Witness ==
    \E i \in Planes :
        /\ ~planes[i].isHovered
        /\ planes[i].worldPos.set
        /\ planes[i].worldPos.x # planes[i].targetWorldPos.x
        /\ planes[i].uOffset = Zero
        /\ planes[i].uMouseVelocity = Zero
        /\ planes[i].uTime > 0

\* C25: the position animateToDOM animates to is (updateX(left, width),
\* updateY(top, height)) of DOMPlane for the same rect, viewport and screen,
\* and its target width and height are those createPlane computes.
C25_TargetAgrees ==
    target.set =>
        /\ target.x = updateX(target.rect.left, target.rect.width)
        /\ target.y = updateY(target.rect.top, target.rect.height)
        /\ target.width = createPlane(target.rect).width
        /\ target.height = createPlane(target.rect).height

\* animateToDOM has computed the target of a rect that is off the origin
\* and has a size.
C25_Witness ==
    /\ target.set
    /\ target.rect.left > 0
    /\ target.rect.top > 0
    /\ target.rect.width > 0
    /\ target.rect.height > 0

\* =============================================================== HomeView
\* C38 (as stated): a destroyed surface stays inert. After destroy() of a
\* HomeView no step creates or tracks a new quad or modifies a DOM element,
\* also when texture loads started before destroy() resolve afterwards.
C38_DestroyedInert ==
    [][viewState = "destroyed" =>
          (imagePlanes' = imagePlanes /\ imgHidden' = imgHidden)]_vars

\* C39 (as stated): a failed texture does not block the others. Once every
\* texture load of a view has settled, there is a quad for each image whose
\* texture loaded, whether or not other loads were rejected.
C39_FailureDoesNotBlock ==
    (viewState = "live" /\ \A s \in Urls : viewLoads[s] # "pending") =>
        \A i \in 1..Len(template) :
            (template[i] # NoSource /\ viewLoads[template[i]] = "loaded")
                => i \in imagePlanes

\* ==================================================================== App
\* C40 (as stated): the application is started exactly once. TransitionManager
\* is never constructed twice, and once start() has resolved or its rejection
\* has been handled, it has been constructed once, whether the loader
\* wrapper is present or absent, the texture loads resolve or reject, the
\* ready signal arrives or times out, and start() resolves or rejects.
C40_StartedOnce ==
    /\ managers <= 1
    /\ preloader.phase \in {"resolved", "rejected"} => managers = 1

====
